---- MODULE Spec2Model ----
(***************************************************************************)
(* Model of the network-sync engine of src/src/EPD_Album.c:                *)
(*   wifi_event_callback, wifi_connect_wait, socket_send_command,          *)
(*   socket_get_image_data and the main loop of EPD_test_net.              *)
(* The main thread is a program counter (pc) that advances one external    *)
(* call at a time; the WiFi event callback runs asynchronously.            *)
(* Spec explores the whole program with scaled-down buffers, FairSpec adds *)
(* the scheduling of the link wait, and SpecScan applies the parsing steps *)
(* of the loop to reply texts of full size.                                *)
(***************************************************************************)
EXTENDS Integers, Sequences, FiniteSets, TLC

\* ------------------------------------------------------------------ sizes
\* IMAGE_BUFFER_SIZE (120000 in the source) and the 4096-byte receive chunk
\* are scaled down so that every byte of a frame is an explicit buffer cell.
IMAGE_BUFFER_SIZE == 3
RECV_CHUNK == 2
\* RECV_BUFFER_SIZE (1024 in the source), scaled likewise
RECV_BUFFER_SIZE == 3
\* cycles of the endless main loop that are explored
MaxCycles == 2
\* wifi_connect_wait: int timeout = 30
WIFI_WAIT_POLLS == 30
\* uint8_t header[4]
HEADER_LEN == 4

VARIABLES
    pc,                 \* position of the main thread
    g_wifi_connected,   \* static volatile bool, LinkStatus cell
    g_socket_connected, \* static volatile bool
    cb_registered,      \* tal_wifi_init has installed wifi_event_callback
    timeout,            \* wifi_connect_wait: remaining polls
    loop_count,         \* EPD_test_net: loop_count
    cmd,                \* command of the socket operation in progress
    fd,                 \* the operation's socket descriptor, -1 = none
    ret,                \* return value of the last socket operation
    recv_ret,           \* result of the last tal_net_recv
    header,             \* socket_get_image_data: uint8_t header[4]
    image_size,         \* socket_get_image_data: uint32_t image_size (hi/lo halves)
    received,           \* socket_get_image_data: uint32_t received
    data_size,          \* EPD_test_net: image_size, written through *data_size
    image_buffer,       \* EPD_test_net: image_buffer, NULL or the cells
    peer_hdr,           \* the 4 header bytes the server will send
    peer_len,           \* bytes of header+body the server sends before closing
    peer_pos,           \* bytes of the server's stream already received
    sock_open,          \* history: sockets currently open
    closes,             \* history: tal_net_close calls of the operation in progress
    fault,              \* history: the transport failed during the operation
    body_recvs,         \* history: tal_net_recv calls after the header read
    written,            \* history: buffer offsets written by the fetch
    allocated,          \* history: image buffers currently allocated
    rendered,           \* history: bytes the display consumed in this cycle, -1 = none
    log,                \* history: what the current cycle has done so far
    response,           \* EPD_test_net: char response[], the C string in it
    g_image_index,      \* static int
    g_image_total,      \* static int
    index,              \* EPD_test_net: int index of the info block
    total,              \* EPD_test_net: int total of the info block
    filename,           \* EPD_test_net: char filename[256], the C string in it
    peer_reply          \* the reply the server sends to the command in progress

vars == <<pc, g_wifi_connected, g_socket_connected, cb_registered, timeout,
          loop_count, cmd, fd, ret, recv_ret, header, image_size, received,
          data_size, image_buffer, peer_hdr, peer_len, peer_pos, sock_open,
          closes, fault, body_recvs, written, allocated, rendered, log,
          response, g_image_index, g_image_total, index, total, filename,
          peer_reply>>

wifiVars == <<g_wifi_connected, g_socket_connected, cb_registered, timeout>>
peerVars == <<peer_hdr, peer_len, peer_pos>>
fetchVars == <<header, image_size, received, data_size, body_recvs, written>>
bufVars == <<image_buffer, allocated, rendered>>
sockVars == <<fd, sock_open, closes>>
parseVars == <<g_image_index, g_image_total, index, total, filename>>
scanVars == <<response, parseVars, peer_reply>>

\* ---------------------------------------------------------------- helpers
Min(a, b) == IF a < b THEN a ELSE b

Count(e, s) == Cardinality({i \in DOMAIN s : s[i] = e})

Has(e, s) == \E i \in DOMAIN s : s[i] = e

\* A uint32_t is kept as its two 16-bit halves, so that every header value
\* is represented exactly.
U32(hi, lo) == [hi |-> hi, lo |-> lo]

U32Zero == U32(0, 0)

U32OfNat(n) == U32(n \div 65536, n % 65536)

U32Gt(a, b) == a.hi > b.hi \/ (a.hi = b.hi /\ a.lo > b.lo)

\* the value of a uint32_t that is known to be small
ToNat(a) == a.hi * 65536 + a.lo

\* A 32-bit int is kept as the four bytes of its bit pattern, the most
\* significant first.
\* the integer promotion of a char that is signed: the sign is extended
PromoteSigned(b) == IF b >= 128 THEN <<255, 255, 255, b>> ELSE <<0, 0, 0, b>>

\* the integer promotion of a uint8_t: the value, zero-extended
Promote(b) == <<0, 0, 0, b>>

\* w << (8 * k): the bytes move up by k places and zeros come in.  For
\* header[0] >= 128 the shift by 24 reaches the sign bit of int; the
\* compiler of this platform (GCC) defines << on signed operands by the bit
\* pattern, so the build gives this one result.
ShlBytes(w, k) == [i \in 1 .. 4 |-> IF i + k <= 4 THEN w[i + k] ELSE 0]

\* a | b on two bytes
RECURSIVE BitOr(_, _)
BitOr(a, b) ==
    IF a = 0 THEN b
    ELSE IF b = 0 THEN a
    ELSE (IF a % 2 = 1 \/ b % 2 = 1 THEN 1 ELSE 0) + 2 * BitOr(a \div 2, b \div 2)

\* v | w
WordOr(v, w) == [i \in 1 .. 4 |-> BitOr(v[i], w[i])]

\* the conversion of an int to uint32_t keeps the bit pattern
ToU32(w) == U32(w[1] * 256 + w[2], w[3] * 256 + w[4])

\* image_size = (header[0] << 24) | (header[1] << 16) | (header[2] << 8) | header[3]
DecodeHeader(h) ==
    ToU32(WordOr(WordOr(ShlBytes(Promote(h[1]), 3), ShlBytes(Promote(h[2]), 2)),
                 WordOr(ShlBytes(Promote(h[3]), 1), Promote(h[4]))))

\* if (image_size > IMAGE_BUFFER_SIZE + 1)
ExceedsBufferOffByOne(sz) == U32Gt(sz, U32OfNat(IMAGE_BUFFER_SIZE + 1))

\* if (image_size > IMAGE_BUFFER_SIZE)
ExceedsBuffer(sz) == U32Gt(sz, U32OfNat(IMAGE_BUFFER_SIZE))

\* if (recv_ret != 4)
HeaderShort(r) == r # HEADER_LEN

\* to_recv = 4096, whatever is left of the frame
ToRecvUnclamped(size, got) == RECV_CHUNK

\* to_recv = image_size - received; if (to_recv > 4096) to_recv = 4096;
ToRecv(size, got) == Min(size - got, RECV_CHUNK)

\* if (recv_ret < 0): the peer's close is not taken as a failure
BodyRecvFailedOnErrorOnly(r) == r < 0

\* if (recv_ret <= 0)
BodyRecvFailed(r) == r <= 0

\* a test that takes only a positive return value as a failure
CommandFailedIfPositive(r) == r > 0

\* != 0 test of the callers on a socket operation's return value
CommandFailed(r) == r # 0

\* a null image_buffer: a buffer with no cells
NULL == [i \in {} |-> 0]

\* ------------------------------------------------------------------ text
\* A C string is the sequence of its characters, the terminating NUL left
\* out; a position in it is a 1-based index and a null pointer is 0.
\* char filename[256]
FILENAME_SIZE == 256

\* the needles of the strstr calls
Q_current_index ==
    <<"\"", "c", "u", "r", "r", "e", "n", "t", "_", "i", "n", "d", "e",
      "x", "\"">>

Q_total ==
    <<"\"", "t", "o", "t", "a", "l", "\"">>

Q_index ==
    <<"\"", "i", "n", "d", "e", "x", "\"">>

Q_filename ==
    <<"\"", "f", "i", "l", "e", "n", "a", "m", "e", "\"">>

\* the sscanf formats "\"name\" : %d": the quoted name, a white-space
\* directive, a colon, a white-space directive and the conversion
FmtInt(qname) == qname \o <<" ", ":", " ", "%d">>

\* isspace
WhiteSpace == {" ", "\t", "\n", "\r", "\f"}

Digits == <<"0", "1", "2", "3", "4", "5", "6", "7", "8", "9">>

IsDigit(c) == \E d \in DOMAIN Digits : Digits[d] = c

DigitVal(c) == (CHOOSE d \in DOMAIN Digits : Digits[d] = c) - 1

\* needle occurs in s at position i
OccursAt(s, needle, i) ==
    /\ i + Len(needle) - 1 <= Len(s)
    /\ \A j \in DOMAIN needle : s[i + j - 1] = needle[j]

\* strstr(s, needle): the first occurrence, or NULL
strstr(s, needle) ==
    LET hits == {i \in DOMAIN s : OccursAt(s, needle, i)}
    IN  IF hits = {} THEN 0 ELSE CHOOSE i \in hits : \A j \in hits : i <= j

\* a search that returns the last occurrence
strstrLast(s, needle) ==
    LET hits == {i \in DOMAIN s : OccursAt(s, needle, i)}
    IN  IF hits = {} THEN 0 ELSE CHOOSE i \in hits : \A j \in hits : i >= j

\* strchr(s + p - 1, c) for p inside s: the first c at or after p, or NULL
strchr(s, p, c) ==
    LET hits == {i \in p .. Len(s) : s[i] = c}
    IN  IF hits = {} THEN 0 ELSE CHOOSE i \in hits : \A j \in hits : i <= j

\* a white-space directive that skips nothing
SkipSpaceNone(s, i) == i

\* the first position at or after i that holds no white space
SkipSpace(s, i) ==
    LET rest == {j \in i .. Len(s) : s[j] \notin WhiteSpace}
    IN  IF rest = {} THEN Len(s) + 1 ELSE CHOOSE j \in rest : \A k \in rest : j <= k

\* the first position at or after i that holds no digit
SkipDigits(s, i) ==
    LET rest == {j \in i .. Len(s) : ~IsDigit(s[j])}
    IN  IF rest = {} THEN Len(s) + 1 ELSE CHOOSE j \in rest : \A k \in rest : j <= k

\* the decimal value of the digits s[i .. j-1]
RECURSIVE DecimalValue(_, _, _)
DecimalValue(s, i, j) ==
    IF j <= i THEN 0 ELSE DecimalValue(s, i, j - 1) * 10 + DigitVal(s[j - 1])

\* %d at position i: white space is skipped, then an optional sign and at
\* least one digit are converted; <<>> when nothing is converted
ConvertInt(s, i) ==
    LET b == SkipSpace(s, i)
        signed == b <= Len(s) /\ s[b] \in {"+", "-"}
        d == IF signed THEN b + 1 ELSE b
        e == SkipDigits(s, d)
    IN  IF e = d THEN <<>>
        ELSE <<(IF signed /\ s[b] = "-" THEN -1 ELSE 1) * DecimalValue(s, d, e)>>

\* sscanf(s + i - 1, fmt, &x) from directive k of fmt on: <<v>> when the
\* conversion assigns v to x, <<>> when the input stops matching before
RECURSIVE sscanf(_, _, _, _)
sscanf(s, i, fmt, k) ==
    IF k > Len(fmt) THEN <<>>
    ELSE IF fmt[k] = "%d" THEN ConvertInt(s, i)
    ELSE IF fmt[k] \in WhiteSpace THEN sscanf(s, SkipSpace(s, i), fmt, k + 1)
    ELSE IF i <= Len(s) /\ s[i] = fmt[k] THEN sscanf(s, i + 1, fmt, k + 1)
    ELSE <<>>

\* a lookup that stores 0 when the token is there and nothing converts
ScanIntFieldZeroOnMismatch(s, qname, old) ==
    LET p == strstr(s, qname)
        r == IF p = 0 THEN <<>> ELSE sscanf(s, p, FmtInt(qname), 1)
    IN  IF p = 0 THEN old ELSE IF r = <<>> THEN 0 ELSE r[1]

\* p = strstr(response, "\"name\""); if (p) sscanf(p, "\"name\" : %d", &x);
\* the value x holds afterwards, old being its value before
ScanIntField(s, qname, old) ==
    LET p == strstr(s, qname)
        r == IF p = 0 THEN <<>> ELSE sscanf(s, p, FmtInt(qname), 1)
    IN  IF r = <<>> THEN old ELSE r[1]

\* ------------------------------------------------------- the server's replies
\* A reply is some leading bytes, a list of "name" sep value fields joined
\* by ", " and some trailing bytes.
Reply(pre, fields, post) == [pre |-> pre, fields |-> fields, post |-> post]

NoReply == Reply(<<>>, <<>>, <<>>)

Field(name, sep, val) == [name |-> name, sep |-> sep, val |-> val]

QName(name) ==
    CASE name = "current_index" -> Q_current_index
      [] name = "total" -> Q_total
      [] name = "index" -> Q_index
      [] name = "filename" -> Q_filename

FieldText(f) == QName(f.name) \o f.sep \o f.val

RECURSIVE JoinFields(_)
JoinFields(fs) ==
    IF fs = <<>> THEN <<>>
    ELSE IF Len(fs) = 1 THEN FieldText(fs[1])
    ELSE FieldText(fs[1]) \o <<",", " ">> \o JoinFields(Tail(fs))

\* the bytes of a reply, as they arrive in response
ReplyText(rep) == rep.pre \o JoinFields(rep.fields) \o rep.post

\* " : ", the separator the sscanf formats are written with
SepSpaced == <<" ", ":", " ">>

Seps == {SepSpaced, <<":">>, <<" ", "=", " ">>}

\* values that are decimal integers: 42, 10, -5, 3
V42 == <<"4", "2">>

V10 == <<"1", "0">>

VNeg5 == <<"-", "5">>

V3 == <<"3">>

\* values that are no integer: nothing, and a letter
BadVals == {<<>>, <<"x">>}

IntFields(name) ==
    {Field(name, sep, val) : sep \in Seps, val \in {V42, V10, VNeg5} \cup BadVals}

\* leading bytes: a brace, unrelated text with another field, and a text
\* that holds "total" as a string value
PreBrace == <<"{">>

PreUnrelated ==
    <<"O", "K", " ", "{", "\"", "i", "d", "\"", " ", ":", " ", "9", ",", " ">>

PreDecoy ==
    <<"{", "\"", "t", "a", "g", "\"", " ", ":", " ", "\"", "t", "o", "t", "a", "l", "\"", ",", " ">>

Pres == {PreBrace, PreUnrelated, PreDecoy}

PostBrace == <<"}">>

\* replies to `update`: both counters in either order, one of them, or none,
\* and the empty reply of a peer that closes without sending
UpdateReplies ==
    {NoReply}
        \cup {Reply(pre, <<>>, PostBrace) : pre \in Pres}
        \cup {Reply(pre, <<f>>, PostBrace) :
                pre \in Pres,
                f \in IntFields("current_index") \cup IntFields("total")}
        \cup {Reply(pre, fs, PostBrace) :
                pre \in Pres,
                fs \in {<<a, b>> : a \in IntFields("current_index"),
                                   b \in IntFields("total")}
                       \cup {<<b, a>> : a \in IntFields("current_index"),
                                        b \in IntFields("total")}}

\* file names: the one of the protocol's example reply, an empty one and
\* one that is longer than filename[] can hold
SunsetBin ==
    <<"s", "u", "n", "s", "e", "t", ".", "b", "i", "n">>

LongNameLen == 300

LongName == [i \in 1 .. LongNameLen |-> "a"]

FileNames == {SunsetBin, <<>>, LongName}

FilenameField(name) == Field("filename", SepSpaced, <<"\"">> \o name \o <<"\"">>)

IndexFields == {Field("index", SepSpaced, V3), Field("index", SepSpaced, <<"x">>)}

\* replies to `info`
InfoReplies ==
    {NoReply}
        \cup {Reply(pre, <<f>>, PostBrace) :
                pre \in Pres,
                f \in IndexFields \cup IntFields("total")
                        \cup {FilenameField(n) : n \in FileNames}}
        \cup {Reply(pre, fs, PostBrace) :
                pre \in Pres,
                fs \in {<<i, t, FilenameField(n)>> :
                            i \in IndexFields, t \in IntFields("total"),
                            n \in FileNames}
                       \cup {<<FilenameField(n), t, i>> :
                            i \in IndexFields, t \in IntFields("total"),
                            n \in FileNames}}

\* {"index" : 3, "total" : 10, "filename" : "sunset.bin"}
ExampleInfoReply ==
    Reply(PreBrace,
          <<Field("index", SepSpaced, V3), Field("total", SepSpaced, V10),
            FilenameField(SunsetBin)>>,
          PostBrace)

\* values the counters can hold from earlier cycles
PrevCounters == {0, 7}

\* In Spec the response buffer is scaled down to RECV_BUFFER_SIZE cells; the
\* server's reply is then the beginning of a reply text.
ScaledReplies ==
    {Reply(SubSeq(ReplyText(ExampleInfoReply), 1, n), <<>>, <<>>) :
        n \in 0 .. RECV_BUFFER_SIZE}

\* ------------------------------------------------------------ environment
WifiEvents == {"WFE_CONNECTED", "WFE_CONNECT_FAILED", "WFE_DISCONNECTED", "OTHER"}

\* contents malloc may leave in a fresh block
StaleBytes == {0, 255}

\* headers the server may send: every length up to one past the capacity,
\* lengths whose upper bytes are set, and bytes whose top bit is set
PeerHeaders ==
    {<<0, 0, 0, n>> : n \in 0 .. IMAGE_BUFFER_SIZE + 1}
        \cup {<<0, 0, 1, 0>>, <<0, 1, 0, 0>>, <<128, 0, 0, 0>>, <<255, 255, 255, 255>>,
              <<0, 0, 0, 200>>, <<1, 128, 2, 3>>}

\* body bytes the server may send under a header: up to one more than it
\* declared
PeerBodyMax(h) ==
    IF U32Gt(DecodeHeader(h), U32OfNat(IMAGE_BUFFER_SIZE + 1))
    THEN IMAGE_BUFFER_SIZE + 1
    ELSE ToNat(DecodeHeader(h)) + 1

\* the i-th body byte (0-based) of the server's frame
PeerByte(i) == i + 1

\* the k-th byte (1-based) of the server's stream: header, then body
StreamByte(k) == IF k <= HEADER_LEN THEN peer_hdr[k] ELSE PeerByte(k - HEADER_LEN - 1)

\* results tal_net_recv(fd, buf, n) can give: an error or timeout (-1), the
\* peer's orderly close (0) once its stream is exhausted, or any positive
\* fragment of what the peer still has to send, at most n
RecvResults(n) ==
    {-1} \cup (IF peer_len - peer_pos = 0 THEN {0} ELSE 1 .. Min(n, peer_len - peer_pos))

TypeOK ==
    /\ g_wifi_connected \in BOOLEAN
    /\ g_socket_connected \in BOOLEAN
    /\ timeout \in 0 .. WIFI_WAIT_POLLS
    /\ loop_count \in 0 .. MaxCycles
    /\ fd \in {-1, 1}
    /\ ret \in {-1, 0}
    /\ sock_open \in Nat
    /\ closes \in Nat

Init ==
    /\ pc = "wifi_init"
    /\ g_wifi_connected = FALSE
    /\ g_socket_connected = FALSE
    /\ cb_registered = FALSE
    /\ timeout = WIFI_WAIT_POLLS
    /\ loop_count = 0
    /\ cmd = "none"
    /\ fd = -1
    /\ ret = 0
    /\ recv_ret = 0
    /\ header = <<0, 0, 0, 0>>
    /\ image_size = U32Zero
    /\ received = 0
    /\ data_size = U32Zero
    /\ image_buffer = NULL
    /\ peer_hdr = <<0, 0, 0, 0>>
    /\ peer_len = 0
    /\ peer_pos = 0
    /\ sock_open = 0
    /\ closes = 0
    /\ fault = FALSE
    /\ body_recvs = 0
    /\ written = {}
    /\ allocated = 0
    /\ rendered = -1
    /\ log = <<>>
    /\ response = <<>>
    /\ g_image_index = 0
    /\ g_image_total = 0
    /\ index = 0
    /\ total = 0
    /\ filename = <<>>
    /\ peer_reply = NoReply

\* ---------------------------------------------------- wifi_event_callback
\* Runs in the WiFi stack's context, at any time once tal_wifi_init has
\* installed it.
wifi_event_callback ==
    /\ cb_registered
    /\ \E event \in WifiEvents :
          CASE event = "WFE_CONNECTED" ->
                  /\ g_wifi_connected' = TRUE
                  /\ UNCHANGED g_socket_connected
            [] event = "WFE_CONNECT_FAILED" ->
                  /\ g_wifi_connected' = FALSE
                  /\ UNCHANGED g_socket_connected
            [] event = "WFE_DISCONNECTED" ->
                  /\ g_wifi_connected' = FALSE
                  /\ g_socket_connected' = FALSE
            [] OTHER ->
                  UNCHANGED <<g_wifi_connected, g_socket_connected>>
    /\ UNCHANGED <<scanVars, pc, cb_registered, timeout, loop_count, cmd, fd, ret, recv_ret,
                   peerVars, fetchVars, bufVars, sock_open, closes, fault, log>>

\* ------------------------------------------------- EPD_test_net: startup
\* tal_wifi_init(wifi_event_callback)
WifiInit ==
    /\ pc = "wifi_init"
    /\ \E ok \in BOOLEAN :
          IF ok THEN cb_registered' = TRUE /\ pc' = "set_work_mode"
                ELSE UNCHANGED cb_registered /\ pc' = "exit"
    /\ UNCHANGED <<scanVars, g_wifi_connected, g_socket_connected, timeout, loop_count, cmd,
                   fd, ret, recv_ret, peerVars, fetchVars, bufVars, sock_open,
                   closes, fault, log>>

\* tal_wifi_set_work_mode(WWM_STATION)
SetWorkMode ==
    /\ pc = "set_work_mode"
    /\ \E ok \in BOOLEAN : pc' = IF ok THEN "station_connect" ELSE "exit"
    /\ UNCHANGED <<scanVars, wifiVars, loop_count, cmd, fd, ret, recv_ret, peerVars,
                   fetchVars, bufVars, sock_open, closes, fault, log>>

\* tal_wifi_station_connect(ssid, password); then wifi_connect_wait() starts
\* with timeout = 30
StationConnect ==
    /\ pc = "station_connect"
    /\ \E ok \in BOOLEAN : pc' = IF ok THEN "wifi_wait" ELSE "exit"
    /\ timeout' = WIFI_WAIT_POLLS
    /\ UNCHANGED <<scanVars, g_wifi_connected, g_socket_connected, cb_registered, loop_count,
                   cmd, fd, ret, recv_ret, peerVars, fetchVars, bufVars, sock_open,
                   closes, fault, log>>

\* the wait with while (timeout >= 0): one poll too many
wifi_connect_waitOnePollMore ==
    /\ pc = "wifi_wait"
    /\ IF timeout >= 0
       THEN IF g_wifi_connected
            THEN pc' = "loop_top" /\ timeout' = WIFI_WAIT_POLLS
            ELSE pc' = "wifi_wait" /\ timeout' = timeout - 1
       ELSE pc' = "wait_failed" /\ UNCHANGED timeout
    /\ UNCHANGED <<scanVars, g_wifi_connected, g_socket_connected, cb_registered, loop_count,
                   cmd, fd, ret, recv_ret, peerVars, fetchVars, bufVars, sock_open,
                   closes, fault, log>>

\* one pass of wifi_connect_wait's while (timeout > 0) loop: the poll of
\* g_wifi_connected, then tal_system_sleep(1000) and timeout--; on return 0
\* the local timeout goes out of scope and the main loop is entered
wifi_connect_wait ==
    /\ pc = "wifi_wait"
    /\ IF timeout > 0
       THEN IF g_wifi_connected
            THEN pc' = "loop_top" /\ timeout' = WIFI_WAIT_POLLS
            ELSE pc' = "wifi_wait" /\ timeout' = timeout - 1
       ELSE pc' = "wait_failed" /\ UNCHANGED timeout
    /\ UNCHANGED <<scanVars, g_wifi_connected, g_socket_connected, cb_registered, loop_count,
                   cmd, fd, ret, recv_ret, peerVars, fetchVars, bufVars, sock_open,
                   closes, fault, log>>

\* wifi_connect_wait() != 0: tal_wifi_station_disconnect(); return -1
WaitFailed ==
    /\ pc = "wait_failed"
    /\ pc' = "exit"
    /\ log' = Append(log, "station_disconnect")
    /\ UNCHANGED <<scanVars, wifiVars, loop_count, cmd, fd, ret, recv_ret, peerVars,
                   fetchVars, bufVars, sock_open, closes, fault>>

\* ----------------------------------------------------- transport helpers
\* entry into socket_send_command / socket_get_image_data: the operation's
\* locals are fresh (int fd = -1)
CallSocketOp(c, entry) ==
    /\ cmd' = c
    /\ fd' = -1
    /\ closes' = 0
    /\ fault' = FALSE
    /\ recv_ret' = 0
    /\ pc' = entry

\* tal_net_socket_create(PROTOCOL_TCP) gave a descriptor
SocketCreated ==
    /\ fd' = 1
    /\ sock_open' = sock_open + 1
    /\ UNCHANGED closes

\* tal_net_close(fd): the first close of a descriptor releases the socket
tal_net_close ==
    /\ closes' = closes + 1
    /\ sock_open' = IF closes = 0 THEN sock_open - 1 ELSE sock_open
    /\ UNCHANGED fd

\* a return that leaves the socket as it is
NoClose == UNCHANGED <<fd, sock_open, closes>>

\* --------------------------------------------------- socket_send_command
\* fd = tal_net_socket_create(PROTOCOL_TCP); if (fd < 0) return -1;
\* tal_net_set_timeout(fd, 5000, ...)
SC_Create ==
    /\ pc = "sc_create"
    /\ \E ok \in BOOLEAN :
          IF ok
          THEN SocketCreated /\ pc' = "sc_addr" /\ UNCHANGED <<ret, fault>>
          ELSE NoClose /\ ret' = -1 /\ fault' = TRUE /\ pc' = "sc_ret"
    /\ peer_reply' = NoReply
    /\ UNCHANGED <<response, parseVars, wifiVars, loop_count, cmd, recv_ret,
                   peerVars, fetchVars, bufVars, log>>

\* server_addr = tal_net_str2addr(SOCKET_SERVER_IP);
\* if (server_addr == 0) { tal_net_close(fd); return -1; }
SC_Str2Addr ==
    /\ pc = "sc_addr"
    /\ \E ok \in BOOLEAN :
          IF ok
          THEN NoClose /\ pc' = "sc_connect" /\ UNCHANGED <<ret, fault>>
          ELSE tal_net_close /\ ret' = -1 /\ fault' = TRUE /\ pc' = "sc_ret"
    /\ UNCHANGED <<scanVars, wifiVars, loop_count, cmd, recv_ret, peerVars, fetchVars,
                   bufVars, log>>

\* conn_ret = tal_net_connect(fd, server_addr, SOCKET_SERVER_PORT);
\* if (conn_ret != 0) { tal_net_close(fd); return -1; }
\* On success the server has a reply of some length to send.
SC_Connect ==
    /\ pc = "sc_connect"
    /\ \E ok \in BOOLEAN :
          IF ok
          THEN /\ NoClose
               /\ pc' = "sc_send"
               /\ \E rep \in ScaledReplies :
                     /\ peer_reply' = rep
                     /\ peer_len' = Len(ReplyText(rep))
               /\ peer_pos' = 0
               /\ UNCHANGED <<ret, fault, peer_hdr>>
          ELSE /\ tal_net_close
               /\ ret' = -1
               /\ fault' = TRUE
               /\ pc' = "sc_ret"
               /\ UNCHANGED <<peerVars, peer_reply>>
    /\ UNCHANGED <<response, parseVars, wifiVars, loop_count, cmd, recv_ret,
                   fetchVars, bufVars, log>>

\* if (send_ret < 0) { tal_net_close(fd); return -1; }, without the close
SC_SendFailedLeak ==
    /\ NoClose
    /\ ret' = -1
    /\ fault' = TRUE
    /\ pc' = "sc_ret"

\* if (send_ret < 0) { tal_net_close(fd); return -1; }
SC_SendFailed ==
    /\ tal_net_close
    /\ ret' = -1
    /\ fault' = TRUE
    /\ pc' = "sc_ret"

\* send_ret = tal_net_send(fd, cmd, strlen(cmd));
SC_Send ==
    /\ pc = "sc_send"
    /\ \E ok \in BOOLEAN :
          IF ok
          THEN NoClose /\ pc' = "sc_recv" /\ UNCHANGED <<ret, fault>>
          ELSE SC_SendFailed
    /\ UNCHANGED <<scanVars, wifiVars, loop_count, cmd, recv_ret, peerVars, fetchVars,
                   bufVars, log>>

\* tal_net_recv(fd, response, resp_size): no cell kept for the terminator
RecvRoomWholeBuffer(resp_size) == resp_size

\* tal_net_recv(fd, response, resp_size - 1): the bytes asked for
RecvRoom(resp_size) == resp_size - 1

\* memset(response, 0, resp_size);
\* recv_ret = tal_net_recv(fd, response, resp_size - 1);
\* recv_ret > 0: response[recv_ret] = '\0'; recv_ret == 0: nothing;
\* recv_ret < 0: tal_net_close(fd); return -1;
SC_Recv ==
    /\ pc = "sc_recv"
    /\ \E r \in RecvResults(RecvRoom(RECV_BUFFER_SIZE)) :
          /\ recv_ret' = r
          /\ IF r < 0
             THEN /\ tal_net_close
                  /\ ret' = -1
                  /\ fault' = TRUE
                  /\ pc' = "sc_ret"
                  /\ response' = <<>>
                  /\ UNCHANGED peer_pos
             ELSE /\ NoClose
                  /\ peer_pos' = peer_pos + r
                  /\ response' = SubSeq(ReplyText(peer_reply), peer_pos + 1, peer_pos + r)
                  /\ pc' = "sc_close"
                  /\ UNCHANGED <<ret, fault>>
    /\ UNCHANGED <<parseVars, peer_reply, wifiVars, loop_count, cmd, peer_hdr,
                   peer_len, fetchVars, bufVars, log>>

\* tal_net_close(fd); g_socket_connected = false; g_wifi_connected = false;
\* return 0;
SC_CloseClearsLink ==
    /\ pc = "sc_close"
    /\ tal_net_close
    /\ g_socket_connected' = FALSE
    /\ g_wifi_connected' = FALSE
    /\ ret' = 0
    /\ pc' = "sc_ret"
    /\ UNCHANGED <<scanVars, cb_registered, timeout, loop_count, cmd,
                   recv_ret, fault, peerVars, fetchVars, bufVars, log>>

\* tal_net_close(fd); g_socket_connected = false; return 0;
SC_Close ==
    /\ pc = "sc_close"
    /\ tal_net_close
    /\ g_socket_connected' = FALSE
    /\ ret' = 0
    /\ pc' = "sc_ret"
    /\ UNCHANGED <<scanVars, g_wifi_connected, cb_registered, timeout, loop_count, cmd,
                   recv_ret, fault, peerVars, fetchVars, bufVars, log>>

\* ----------------------------------------------- EPD_test_net: main loop
\* a loop that goes back to the link wait when the link is down at the top
\* of a cycle
LoopTopAwaitLink ==
    /\ pc = "loop_top"
    /\ loop_count < MaxCycles
    /\ IF g_wifi_connected
       THEN /\ loop_count' = loop_count + 1
            /\ log' = <<"update">>
            /\ rendered' = -1
            /\ CallSocketOp("update", "sc_create")
            /\ UNCHANGED timeout
       ELSE /\ pc' = "wifi_wait"
            /\ timeout' = WIFI_WAIT_POLLS
            /\ UNCHANGED <<loop_count, log, rendered, cmd, fd, closes, fault, recv_ret>>
    /\ UNCHANGED <<scanVars, g_wifi_connected, g_socket_connected, cb_registered, ret,
                   sock_open, peerVars, fetchVars, image_buffer, allocated>>

\* while (1) { loop_count++; ... socket_send_command("update", ...)
LoopTop ==
    /\ pc = "loop_top"
    /\ loop_count < MaxCycles
    /\ loop_count' = loop_count + 1
    /\ log' = <<"update">>
    /\ rendered' = -1
    /\ CallSocketOp("update", "sc_create")
    /\ UNCHANGED <<scanVars, wifiVars, ret, sock_open, peerVars, fetchVars, image_buffer,
                   allocated>>

\* if (socket_send_command("update", ...) != 0) { sleep; continue; }
UpdateReturned ==
    /\ pc = "sc_ret"
    /\ cmd = "update"
    /\ IF CommandFailed(ret)
       THEN log' = Append(log, "update_failed") /\ pc' = "delay"
       ELSE log' = log /\ pc' = "parse_update"
    /\ peer_len' = 0
    /\ peer_pos' = 0
    /\ UNCHANGED <<scanVars, wifiVars, loop_count, cmd, ret, recv_ret, sockVars, fault,
                   peer_hdr, fetchVars, bufVars>>

\* p = strstr(response, "\"current_index\"");
\* if (p) sscanf(p, "\"current_index\" : %d", &g_image_index);
\* likewise "total" into g_image_total; then socket_send_command("info", ...)
ParseUpdate ==
    /\ pc = "parse_update"
    /\ g_image_index' = ScanIntField(response, Q_current_index, g_image_index)
    /\ g_image_total' = ScanIntField(response, Q_total, g_image_total)
    /\ log' = Append(log, "info")
    /\ CallSocketOp("info", "sc_create")
    /\ UNCHANGED <<response, index, total, filename, peer_reply, wifiVars,
                   loop_count, ret, sock_open, peerVars, fetchVars, bufVars>>

\* a loop that sends info again at once when it has failed
InfoReturnedRetry ==
    /\ pc = "sc_ret"
    /\ cmd = "info"
    /\ IF CommandFailed(ret)
       THEN /\ log' = Append(Append(log, "info_failed"), "info")
            /\ CallSocketOp("info", "sc_create")
       ELSE /\ log' = log
            /\ pc' = "parse_info"
            /\ UNCHANGED <<cmd, fd, closes, fault, recv_ret>>
    /\ peer_len' = 0
    /\ peer_pos' = 0
    /\ UNCHANGED <<scanVars, wifiVars, loop_count, ret, sock_open, peer_hdr,
                   fetchVars, bufVars>>

\* if (socket_send_command("info", ...) != 0) { sleep; continue; }
InfoReturned ==
    /\ pc = "sc_ret"
    /\ cmd = "info"
    /\ IF CommandFailed(ret)
       THEN log' = Append(log, "info_failed") /\ pc' = "delay"
       ELSE log' = log /\ pc' = "parse_info"
    /\ peer_len' = 0
    /\ peer_pos' = 0
    /\ UNCHANGED <<scanVars, wifiVars, loop_count, cmd, ret, recv_ret, sockVars, fault,
                   peer_hdr, fetchVars, bufVars>>

\* p = strstr(response, "\"filename\"");
\* if (p) { start = strchr(p, '"'); end = strchr(start + 1, '"');
\*   if (start && end && end > start + 1) { len = end - start - 1;
\*     if (len < sizeof(filename) - 1) { memcpy(filename, start + 1, len);
\*                                       filename[len] = '\0'; } } }
\* The string filename holds afterwards; it starts as {0}.  p points at a
\* quote, so start is never null.
ExtractFilename(s) ==
    LET p == strstr(s, Q_filename)
        start == strchr(s, p, "\"")
        end == strchr(s, start + 1, "\"")
        len == end - start - 1
    IN  IF p # 0 /\ start # 0 /\ end # 0 /\ end > start + 1 /\ len < FILENAME_SIZE - 1
        THEN SubSeq(s, start + 1, start + len)
        ELSE <<>>

\* int index = 0, total = 0; char filename[256] = {0};
\* "index" is scanned into index; "total" into total, and if the token is
\* there g_image_total = total; then the file name is extracted
ParseInfo ==
    /\ pc = "parse_info"
    /\ index' = ScanIntField(response, Q_index, 0)
    /\ total' = ScanIntField(response, Q_total, 0)
    /\ g_image_total' = IF strstr(response, Q_total) # 0 THEN total' ELSE g_image_total
    /\ filename' = ExtractFilename(response)
    /\ pc' = "malloc"
    /\ UNCHANGED <<response, g_image_index, peer_reply, wifiVars, loop_count, cmd,
                   ret, recv_ret, sockVars, fault, peerVars, fetchVars, bufVars, log>>

\* image_buffer = malloc(IMAGE_BUFFER_SIZE); NULL: sleep, continue;
\* otherwise socket_get_image_data(image_buffer, &image_size) is called,
\* whose locals start as image_size = 0, received = 0
Malloc ==
    /\ pc = "malloc"
    /\ \E ok \in BOOLEAN :
          IF ok
          THEN /\ \E stale \in StaleBytes :
                     image_buffer' = [i \in 0 .. IMAGE_BUFFER_SIZE - 1 |-> stale]
               /\ allocated' = allocated + 1
               /\ written' = {}
               /\ body_recvs' = 0
               /\ image_size' = U32Zero
               /\ received' = 0
               /\ log' = Append(log, "get_c")
               /\ CallSocketOp("get_c", "gi_create")
          ELSE /\ image_buffer' = NULL
               /\ log' = Append(log, "malloc_failed")
               /\ pc' = "delay"
               /\ UNCHANGED <<allocated, written, body_recvs, image_size, received,
                              cmd, fd, closes, fault, recv_ret>>
    /\ UNCHANGED <<scanVars, wifiVars, loop_count, ret, sock_open, peerVars, header,
                   data_size, rendered>>

\* ------------------------------------------------- socket_get_image_data
\* fd = tal_net_socket_create(PROTOCOL_TCP); if (fd < 0) return -1;
\* tal_net_set_timeout(fd, 10000, TRANS_RECV); ...
GI_Create ==
    /\ pc = "gi_create"
    /\ \E ok \in BOOLEAN :
          IF ok
          THEN SocketCreated /\ pc' = "gi_addr" /\ UNCHANGED <<ret, fault>>
          ELSE NoClose /\ ret' = -1 /\ fault' = TRUE /\ pc' = "gi_ret"
    /\ peer_reply' = NoReply
    /\ UNCHANGED <<response, parseVars, wifiVars, loop_count, cmd, recv_ret,
                   peerVars, fetchVars, bufVars, log>>

\* if (server_addr == 0) { tal_net_close(fd); return -1; }
GI_Str2Addr ==
    /\ pc = "gi_addr"
    /\ \E ok \in BOOLEAN :
          IF ok
          THEN NoClose /\ pc' = "gi_connect" /\ UNCHANGED <<ret, fault>>
          ELSE tal_net_close /\ ret' = -1 /\ fault' = TRUE /\ pc' = "gi_ret"
    /\ UNCHANGED <<scanVars, wifiVars, loop_count, cmd, recv_ret, peerVars, fetchVars,
                   bufVars, log>>

\* if (conn_ret != 0) { tal_net_close(fd); return -1; }
\* On success the server has chosen a header and how much of header and
\* body it will send before it closes.
GI_Connect ==
    /\ pc = "gi_connect"
    /\ \E ok \in BOOLEAN :
          IF ok
          THEN /\ NoClose
               /\ pc' = "gi_send"
               /\ \E h \in PeerHeaders :
                     /\ peer_hdr' = h
                     /\ \E n \in 0 .. HEADER_LEN + PeerBodyMax(h) : peer_len' = n
               /\ peer_pos' = 0
               /\ UNCHANGED <<ret, fault>>
          ELSE /\ tal_net_close
               /\ ret' = -1
               /\ fault' = TRUE
               /\ pc' = "gi_ret"
               /\ UNCHANGED peerVars
    /\ UNCHANGED <<scanVars, wifiVars, loop_count, cmd, recv_ret, fetchVars, bufVars, log>>

\* send_ret = tal_net_send(fd, "get_c", 5);
\* if (send_ret < 0) { tal_net_close(fd); return -1; }
GI_Send ==
    /\ pc = "gi_send"
    /\ \E ok \in BOOLEAN :
          IF ok
          THEN NoClose /\ pc' = "gi_header" /\ UNCHANGED <<ret, fault>>
          ELSE tal_net_close /\ ret' = -1 /\ fault' = TRUE /\ pc' = "gi_ret"
    /\ UNCHANGED <<scanVars, wifiVars, loop_count, cmd, recv_ret, peerVars, fetchVars,
                   bufVars, log>>

\* memset(header, 0, 4); recv_ret = tal_net_recv(fd, header, 4);
\* recv_ret != 4: close, return -1.  Otherwise the size is decoded;
\* too large: close, return -1; else *data_size = image_size; received = 0
GI_RecvHeader ==
    /\ pc = "gi_header"
    /\ \E r \in RecvResults(HEADER_LEN) :
          LET got == IF r > 0 THEN r ELSE 0
              hdr == [i \in 1 .. HEADER_LEN |->
                         IF i <= got THEN StreamByte(peer_pos + i) ELSE 0]
          IN  /\ recv_ret' = r
              /\ header' = hdr
              /\ peer_pos' = peer_pos + got
              /\ fault' = (fault \/ r < 0)
              /\ IF HeaderShort(r)
                 THEN /\ tal_net_close
                      /\ ret' = -1
                      /\ pc' = "gi_ret"
                      /\ UNCHANGED <<image_size, data_size, received>>
                 ELSE /\ image_size' = DecodeHeader(hdr)
                      /\ IF ExceedsBuffer(DecodeHeader(hdr))
                         THEN /\ tal_net_close
                              /\ ret' = -1
                              /\ pc' = "gi_ret"
                              /\ UNCHANGED <<data_size, received>>
                         ELSE /\ NoClose
                              /\ data_size' = DecodeHeader(hdr)
                              /\ received' = 0
                              /\ pc' = "gi_body"
                              /\ UNCHANGED ret
    /\ UNCHANGED <<scanVars, wifiVars, loop_count, cmd, peer_hdr, peer_len, body_recvs,
                   written, bufVars, log>>

\* while (received < image_size)
MoreToReceive(got, size) == got < size

\* one pass of the receive loop:
\* recv_ret = tal_net_recv(fd, data + received, to_recv);
\* recv_ret <= 0: close, return -1; else received += recv_ret
GI_RecvBody ==
    /\ pc = "gi_body"
    /\ MoreToReceive(received, ToNat(image_size))
    /\ \E r \in RecvResults(ToRecv(ToNat(image_size), received)) :
          /\ recv_ret' = r
          /\ body_recvs' = body_recvs + 1
          /\ fault' = (fault \/ r < 0)
          /\ IF BodyRecvFailed(r)
             THEN /\ tal_net_close
                  /\ ret' = -1
                  /\ pc' = "gi_ret"
                  /\ UNCHANGED <<image_buffer, written, received, peer_pos>>
             ELSE /\ NoClose
                  /\ image_buffer' =
                        [i \in DOMAIN image_buffer |->
                            IF received <= i /\ i < received + r
                            THEN StreamByte(peer_pos + (i - received) + 1)
                            ELSE image_buffer[i]]
                  /\ written' = written \cup (received .. received + r - 1)
                  /\ received' = received + r
                  /\ peer_pos' = peer_pos + r
                  /\ pc' = "gi_body"
                  /\ UNCHANGED ret
    /\ UNCHANGED <<scanVars, wifiVars, loop_count, cmd, peer_hdr, peer_len, header,
                   image_size, data_size, allocated, rendered, log>>

\* after the loop: return 0, without tal_net_close(fd)
GI_DoneLeak ==
    /\ pc = "gi_body"
    /\ ~MoreToReceive(received, ToNat(image_size))
    /\ NoClose
    /\ ret' = 0
    /\ pc' = "gi_ret"
    /\ UNCHANGED <<scanVars, wifiVars, loop_count, cmd, recv_ret, fault, peerVars, fetchVars,
                   bufVars, log>>

\* after the loop: tal_net_close(fd); return 0;
GI_Done ==
    /\ pc = "gi_body"
    /\ ~MoreToReceive(received, ToNat(image_size))
    /\ tal_net_close
    /\ ret' = 0
    /\ pc' = "gi_ret"
    /\ UNCHANGED <<scanVars, wifiVars, loop_count, cmd, recv_ret, fault, peerVars, fetchVars,
                   bufVars, log>>

\* --------------------------------------- EPD_test_net: fetch and display
\* if (socket_get_image_data(...) != 0) { sleep; continue; }, the buffer
\* neither freed nor forgotten
FetchReturnedLeak ==
    /\ pc = "gi_ret"
    /\ IF CommandFailed(ret)
       THEN /\ log' = Append(log, "get_c_failed")
            /\ pc' = "delay"
       ELSE /\ log' = Append(log, "fetched")
            /\ pc' = "dev_init"
    /\ peer_len' = 0
    /\ peer_pos' = 0
    /\ UNCHANGED <<scanVars, wifiVars, loop_count, cmd, ret, recv_ret, sockVars, fault,
                   peer_hdr, fetchVars, bufVars>>

\* if (socket_get_image_data(...) != 0) { free(image_buffer);
\* image_buffer = NULL; sleep; continue; }
\* On success print_hex_dump reads at most the first image_size bytes.
FetchReturned ==
    /\ pc = "gi_ret"
    /\ IF CommandFailed(ret)
       THEN /\ image_buffer' = NULL
            /\ allocated' = allocated - 1
            /\ log' = log \o <<"get_c_failed", "free">>
            /\ pc' = "delay"
       ELSE /\ log' = Append(log, "fetched")
            /\ pc' = "dev_init"
            /\ UNCHANGED <<image_buffer, allocated>>
    /\ peer_len' = 0
    /\ peer_pos' = 0
    /\ UNCHANGED <<scanVars, wifiVars, loop_count, cmd, ret, recv_ret, sockVars, fault,
                   peer_hdr, fetchVars, rendered>>

\* DEV_Module_Init() != 0: free(image_buffer); image_buffer = NULL; continue
\* without tal_system_sleep(LOOP_INTERVAL_MS)
DevInitFailedNoSleep ==
    /\ image_buffer' = NULL
    /\ allocated' = allocated - 1
    /\ log' = log \o <<"dev_init_failed", "free">>
    /\ pc' = "loop_top"

\* DEV_Module_Init() != 0: free(image_buffer); image_buffer = NULL; sleep;
\* continue
DevInitFailed ==
    /\ image_buffer' = NULL
    /\ allocated' = allocated - 1
    /\ log' = log \o <<"dev_init_failed", "free">>
    /\ pc' = "delay"

\* if (DEV_Module_Init() != 0) ...
DevModuleInit ==
    /\ pc = "dev_init"
    /\ \E ok \in BOOLEAN :
          IF ok
          THEN pc' = "epd_init" /\ UNCHANGED <<image_buffer, allocated, log>>
          ELSE DevInitFailed
    /\ UNCHANGED <<scanVars, wifiVars, loop_count, cmd, ret, recv_ret, sockVars, fault,
                   peerVars, fetchVars, rendered>>

\* EPD_4IN0E_Init(), then straight to the sleep step
EpdInitSkipDisplay ==
    /\ pc = "epd_init"
    /\ pc' = "sleep"
    /\ UNCHANGED <<scanVars, wifiVars, loop_count, cmd, ret, recv_ret, sockVars, fault,
                   peerVars, fetchVars, bufVars, log>>

\* EPD_4IN0E_Init();
EpdInit ==
    /\ pc = "epd_init"
    /\ pc' = "display"
    /\ UNCHANGED <<scanVars, wifiVars, loop_count, cmd, ret, recv_ret, sockVars, fault,
                   peerVars, fetchVars, bufVars, log>>

\* bytes of a full panel frame, which is what the display call consumes:
\* the call passes the buffer and no length (Imagesize = WIDTH / 2 * HEIGHT,
\* the size IMAGE_BUFFER_SIZE is defined to be)
PanelFrameBytes == IMAGE_BUFFER_SIZE

\* EPD_4IN0E_Display_Fast(image_buffer); DEV_Delay_ms(30000);
Display ==
    /\ pc = "display"
    /\ rendered' = PanelFrameBytes
    /\ log' = Append(log, "render")
    /\ pc' = "sleep"
    /\ UNCHANGED <<scanVars, wifiVars, loop_count, cmd, ret, recv_ret, sockVars, fault,
                   peerVars, fetchVars, image_buffer, allocated>>

\* EPD_4IN0E_Sleep(); DEV_Delay_ms(500); DEV_Module_Exit();
Sleep ==
    /\ pc = "sleep"
    /\ log' = Append(log, "sleep")
    /\ pc' = "free"
    /\ UNCHANGED <<scanVars, wifiVars, loop_count, cmd, ret, recv_ret, sockVars, fault,
                   peerVars, fetchVars, bufVars>>

\* free(image_buffer); image_buffer = NULL;
Free ==
    /\ pc = "free"
    /\ image_buffer' = NULL
    /\ allocated' = allocated - 1
    /\ log' = Append(log, "free")
    /\ pc' = "delay"
    /\ UNCHANGED <<scanVars, wifiVars, loop_count, cmd, ret, recv_ret, sockVars, fault,
                   peerVars, fetchVars, rendered>>

\* tal_system_sleep(LOOP_INTERVAL_MS) at the end of a cycle, then the next
\* pass of while (1)
Delay ==
    /\ pc = "delay"
    /\ log' = Append(log, "delay")
    /\ pc' = "loop_top"
    /\ UNCHANGED <<scanVars, wifiVars, loop_count, cmd, ret, recv_ret, sockVars, fault,
                   peerVars, fetchVars, bufVars>>

Next ==
    \/ wifi_event_callback
    \/ WifiInit
    \/ SetWorkMode
    \/ StationConnect
    \/ wifi_connect_wait
    \/ WaitFailed
    \/ SC_Create
    \/ SC_Str2Addr
    \/ SC_Connect
    \/ SC_Send
    \/ SC_Recv
    \/ SC_Close
    \/ LoopTop
    \/ UpdateReturned
    \/ ParseUpdate
    \/ InfoReturned
    \/ ParseInfo
    \/ Malloc
    \/ GI_Create
    \/ GI_Str2Addr
    \/ GI_Connect
    \/ GI_Send
    \/ GI_RecvHeader
    \/ GI_RecvBody
    \/ GI_Done
    \/ FetchReturned
    \/ DevModuleInit
    \/ EpdInit
    \/ Display
    \/ Sleep
    \/ Free
    \/ Delay

Spec == Init /\ [][Next]_vars

\* The main thread is scheduled and tal_system_sleep(1000) returns, so the
\* link wait and the step after it are not postponed for ever.
FairSpec == Spec /\ WF_vars(wifi_connect_wait) /\ WF_vars(WaitFailed)

\* ------------------------------------------------- the scan of the replies
\* The parsing steps on replies of full size.  The exchange with the server
\* is taken as done: the state is the one in which socket_send_command has
\* just returned 0 with the server's whole reply in response (the buffer has
\* its source size here, which every reply text fits), in some cycle whose
\* predecessors left any values in the counters.
ScanInit ==
    /\ pc = "sc_ret"
    /\ cmd \in {"update", "info"}
    /\ peer_reply \in (IF cmd = "update" THEN UpdateReplies ELSE InfoReplies)
    /\ response = ReplyText(peer_reply)
    /\ recv_ret = Len(response)
    /\ peer_len = Len(response)
    /\ peer_pos = Len(response)
    /\ ret = 0
    /\ g_image_index \in PrevCounters
    /\ g_image_total \in PrevCounters
    /\ index = 0
    /\ total = 0
    /\ filename = <<>>
    /\ log = (IF cmd = "update" THEN <<"update">> ELSE <<"update", "info">>)
    /\ loop_count = 1
    /\ g_wifi_connected = TRUE
    /\ g_socket_connected = FALSE
    /\ cb_registered = TRUE
    /\ timeout = WIFI_WAIT_POLLS
    /\ fd = 1
    /\ sock_open = 0
    /\ closes = 1
    /\ fault = FALSE
    /\ header = <<0, 0, 0, 0>>
    /\ image_size = U32Zero
    /\ received = 0
    /\ data_size = U32Zero
    /\ image_buffer = NULL
    /\ peer_hdr = <<0, 0, 0, 0>>
    /\ body_recvs = 0
    /\ written = {}
    /\ allocated = 0
    /\ rendered = -1

ScanNext ==
    \/ UpdateReturned
    \/ ParseUpdate
    \/ InfoReturned
    \/ ParseInfo

SpecScan == ScanInit /\ [][ScanNext]_vars

\* tal_net_recv returns (the receive timeout is set to 10 s) and the main
\* thread is scheduled, so a pass of the receive loop is not postponed for
\* ever.
FairFetchSpec == Spec /\ WF_vars(GI_RecvBody) /\ WF_vars(GI_Done)

\* ================================================================ claims
\* positions of the main thread
StartupPcs == {"wifi_init", "set_work_mode", "station_connect", "wifi_wait", "wait_failed"}

ScPcs == {"sc_create", "sc_addr", "sc_connect", "sc_send", "sc_recv", "sc_close"}

GiPcs == {"gi_create", "gi_addr", "gi_connect", "gi_send", "gi_header", "gi_body"}

\* positions at which no socket operation is in progress
IdlePcs == {"loop_top", "parse_update", "parse_info", "malloc", "dev_init",
            "epd_init", "display", "sleep", "free", "delay"}

InLoop == pc \notin StartupPcs \cup {"exit"}

Capacity == U32OfNat(IMAGE_BUFFER_SIZE)

\* the length the server declared in its header
DeclaredLen == DecodeHeader(peer_hdr)

\* the server sent its header and the whole body it declared
PeerSentWholeFrame ==
    /\ ~U32Gt(DeclaredLen, Capacity)
    /\ peer_len = HEADER_LEN + ToNat(DeclaredLen)

\* the first n buffer cells hold the server's first n body bytes, in order
BufferHoldsFrame(n) ==
    /\ image_buffer # NULL
    /\ \A i \in 0 .. n - 1 : image_buffer[i] = PeerByte(i)

\* C1: for every declared length within the capacity and every fragmentation
\* of header and body into receives, with no transport failure, the fetch
\* succeeds, reports the declared length, and the buffer starts with the
\* bytes the server sent.
C1_FetchDeliversFrame ==
    (pc = "gi_ret" /\ ~fault /\ PeerSentWholeFrame)
        => /\ ret = 0
           /\ data_size = DeclaredLen
           /\ BufferHoldsFrame(ToNat(DeclaredLen))

\* C2: when the decoded length exceeds the capacity the fetch fails, makes
\* no receive after the header read, writes nothing into the buffer and
\* has closed the connection.
C2_OversizeRejected ==
    (cmd = "get_c" /\ U32Gt(image_size, Capacity))
        => /\ pc \in {"gi_ret", "delay", "loop_top"}
           /\ ret = -1
           /\ body_recvs = 0
           /\ written = {}
           /\ closes = 1
           /\ sock_open = 0
           /\ ~Has("fetched", log)

C2_Witness ==
    /\ pc = "gi_ret"
    /\ image_size = U32OfNat(IMAGE_BUFFER_SIZE + 1)
    /\ peer_len > HEADER_LEN
    /\ ret = -1

\* C3: a body receive that returns zero or an error ends the fetch with
\* failure; the fetch returns success only with received = declared length,
\* and the loop renders only a completely received frame.
C3_NoPartialSuccess ==
    /\ (cmd = "get_c" /\ body_recvs > 0 /\ recv_ret <= 0)
          => (pc \in {"gi_ret", "delay", "loop_top"} /\ ret = -1
              /\ ~Has("fetched", log))
    /\ (pc = "gi_ret" /\ ret = 0)
          => /\ received = ToNat(image_size)
             /\ image_size = DeclaredLen
             /\ written = 0 .. received - 1
    /\ Has("render", log)
          => /\ Has("fetched", log)
             /\ ret = 0
             /\ written = 0 .. ToNat(DeclaredLen) - 1

C3_Witness ==
    /\ pc = "gi_ret"
    /\ ret = -1
    /\ recv_ret = 0
    /\ received > 0
    /\ received < ToNat(image_size)

\* C4: when socket_send_command or socket_get_image_data returns, a socket
\* it created has been closed exactly once, and during the operation it is
\* never closed twice.
C4_ClosedExactlyOnce ==
    /\ closes <= 1
    /\ pc \in {"sc_ret", "gi_ret"}
          => /\ (fd = 1 => closes = 1)
             /\ (fd = -1 => closes = 0)
             /\ sock_open = 0
    /\ pc \in (ScPcs \cup GiPcs) => (closes = 0 /\ sock_open = (IF fd = 1 THEN 1 ELSE 0))

C4_Witness ==
    /\ pc = "sc_ret"
    /\ fd = 1
    /\ recv_ret = -1
    /\ ret = -1
    /\ closes = 1

\* C5: at most one connection is open at any time, and none while the loop
\* parses, allocates, renders or is in the inter-cycle delay.
C5_OneConnection ==
    /\ sock_open <= 1
    /\ pc \in IdlePcs => sock_open = 0

C5_Witness ==
    /\ pc = "display"
    /\ loop_count > 1
    /\ sock_open = 0

\* C6: when update fails, the cycle sends neither info nor get_c, does not
\* render, and passes through the inter-cycle delay exactly once.
C6_UpdateFailureSkipsCycle ==
    (cmd = "update" /\ pc \notin ScPcs /\ ret # 0)
        => \/ pc = "sc_ret" /\ log = <<"update">>
           \/ pc = "delay" /\ log = <<"update", "update_failed">>
           \/ pc = "loop_top" /\ log = <<"update", "update_failed", "delay">>

C6_Witness ==
    /\ pc = "loop_top"
    /\ cmd = "update"
    /\ ret = -1
    /\ log = <<"update", "update_failed", "delay">>

\* C7: once the loop is entered it never exits, and every cycle, whichever
\* step fails or none, ends with exactly one inter-cycle delay before the
\* next cycle starts.
C7_DelayOncePerCycle ==
    /\ loop_count >= 1 => InLoop
    /\ (pc = "loop_top" /\ loop_count >= 1)
          => (Count("delay", log) = 1 /\ log[Len(log)] = "delay")
    /\ pc # "loop_top" => ~Has("delay", log)
    /\ (Has("update_failed", log) \/ Has("info_failed", log) \/ Has("malloc_failed", log)
        \/ Has("get_c_failed", log) \/ Has("dev_init_failed", log))
          => pc \in {"delay", "loop_top"}

C7_Witness ==
    /\ pc = "loop_top"
    /\ loop_count > 1
    /\ Has("dev_init_failed", log)
    /\ Count("delay", log) = 1

\* the cycle rendered once, then put the display to sleep, then freed the
\* buffer
RenderSleepFree(s) ==
    /\ Count("render", s) = 1
    /\ Count("sleep", s) = 1
    /\ Count("free", s) = 1
    /\ \E i, j, k \in DOMAIN s :
          i < j /\ j < k /\ s[i] = "render" /\ s[j] = "sleep" /\ s[k] = "free"

\* C8 as stated: every cycle whose fetch succeeds renders exactly once, then
\* sleeps the display, then frees the buffer; a cycle without a successful
\* fetch never renders.
C8_RenderAfterEveryFetch ==
    /\ (pc \in {"delay", "loop_top"} /\ Has("fetched", log)) => RenderSleepFree(log)
    /\ ~Has("fetched", log) => ~Has("render", log)

\* C8 amended: a cycle whose fetch succeeds and whose DEV_Module_Init then
\* succeeds renders exactly once, then sleeps the display, then frees the
\* buffer; if DEV_Module_Init fails the buffer is freed with no render and no
\* sleep; a cycle without a successful fetch never renders.
C8_RenderAfterFetchAndInit ==
    /\ (pc \in {"delay", "loop_top"} /\ Has("fetched", log) /\ ~Has("dev_init_failed", log))
          => RenderSleepFree(log)
    /\ Has("dev_init_failed", log)
          => (~Has("render", log) /\ ~Has("sleep", log) /\ Count("free", log) = 1)
    /\ ~Has("fetched", log) => ~Has("render", log)
    /\ Count("render", log) <= 1
    /\ (pc \in IdlePcs /\ ret = 0 /\ cmd = "get_c") => Has("fetched", log)

C8_Witness ==
    /\ pc = "loop_top"
    /\ log = <<"update", "info", "get_c", "fetched", "render", "sleep", "free", "delay">>

\* C9: on a successful fetch the display consumes exactly the received
\* length, and only bytes this cycle's fetch wrote.
C9_RenderExactLength ==
    Has("render", log)
        => /\ rendered = ToNat(data_size)
           /\ (0 .. rendered - 1) \subseteq written

\* C10 as stated: a cycle whose start finds LinkStatus not connected does
\* not begin the update command.
C10_NoCommandWhileLinkDown ==
    [][(pc = "loop_top" /\ pc' = "sc_create") => g_wifi_connected]_vars

\* C10 amended: the link is awaited only at startup; whatever LinkStatus is
\* at the start of a cycle the loop goes on to attempt update, and it never
\* leaves the loop.
C10_CycleIgnoresLink ==
    [][/\ InLoop => InLoop'
       /\ (pc = "loop_top" /\ pc' # pc) => (pc' = "sc_create" /\ cmd' = "update")]_vars

C10_Witness ==
    /\ pc = "sc_create"
    /\ cmd = "update"
    /\ loop_count > 1
    /\ ~g_wifi_connected
\* --------------------------------------------------------------------- C11
\* C11: the startup link wait returns success at the first poll that sees
\* g_wifi_connected set; otherwise every poll is followed by a one-second
\* sleep that takes one off the 30 remaining polls, and the wait fails when
\* none is left, that is after exactly 30 polls.  Startup then disconnects
\* the station and ends for good with no command sent and no socket made.
\* Whatever link events arrive, the wait comes to an end.
C11_LinkWait ==
    /\ [](pc = "wifi_wait" => timeout \in 0 .. WIFI_WAIT_POLLS)
    /\ [](pc = "wait_failed" => timeout = 0 /\ log = <<>>)
    /\ [](Has("station_disconnect", log) =>
            /\ pc = "exit"
            /\ log = <<"station_disconnect">>
            /\ loop_count = 0 /\ cmd = "none" /\ fd = -1 /\ sock_open = 0)
    /\ [][pc = "wifi_wait" /\ <<pc, timeout>>' # <<pc, timeout>> =>
            IF timeout > 0 /\ g_wifi_connected THEN pc' = "loop_top"
            ELSE IF timeout > 0 THEN pc' = "wifi_wait" /\ timeout' = timeout - 1
            ELSE pc' = "wait_failed"]_vars
    /\ [][pc = "wait_failed" /\ pc' # pc =>
            pc' = "exit" /\ log' = <<"station_disconnect">>]_vars
    /\ [][pc = "exit" => pc' = "exit"]_vars
    /\ (pc = "wifi_wait") ~> (pc \in {"loop_top", "wait_failed"})

\* the wait has given up after its 30 polls and startup has ended, although
\* the link came up afterwards
C11_Witness ==
    /\ pc = "exit"
    /\ timeout = 0
    /\ log = <<"station_disconnect">>
    /\ g_wifi_connected
\* --------------------------------------------------------------------- C12
\* C12: socket_send_command keeps reading until the response buffer is full
\* or the peer has closed, so that a reply delivered in several fragments is
\* returned whole: on a successful return the bytes read are all the bytes of
\* the peer's reply, up to the capacity less one.
C12_ReplyReadWhole ==
    (pc = "sc_ret" /\ ret = 0 /\ ~fault) =>
        recv_ret = Min(peer_len, RECV_BUFFER_SIZE - 1)
\* ------------------------------------------------------- C13, C14, C15, C16
\* what the server put into its reply
HasField(rep, name) == \E i \in DOMAIN rep.fields : rep.fields[i].name = name

\* the quoted name occurs nowhere in the reply
TokenNowhere(rep, name) ==
    /\ ~HasField(rep, name)
    /\ name = "total" => rep.pre # PreDecoy

\* the reply holds "name" : 42 and the bytes around it do not hold the token
Holds42(rep, name) ==
    /\ \E i \in DOMAIN rep.fields : rep.fields[i] = Field(name, SepSpaced, V42)
    /\ name = "total" => rep.pre # PreDecoy

\* the field is missing from the reply, or what follows its name is no " : "
\* and integer
AbsentOrMalformed(rep, name) ==
    \A i \in DOMAIN rep.fields :
        rep.fields[i].name = name =>
            rep.fields[i].val \in BadVals \/ rep.fields[i].sep = <<" ", "=", " ">>

ParsedUpdate == pc = "parse_update" /\ pc' # pc

ParsedInfo == pc = "parse_info" /\ pc' # pc

\* C13: the integer lookup does not write its target when the reply does not
\* hold the quoted field name, and reads 42 from a reply that holds
\* "name" : 42 among unrelated bytes, whichever field comes first; this for
\* both counters of the update step and for total of the info step.
C13_IntegerLookup ==
    [][/\ ParsedUpdate =>
            /\ TokenNowhere(peer_reply, "current_index") => g_image_index' = g_image_index
            /\ TokenNowhere(peer_reply, "total") => g_image_total' = g_image_total
            /\ Holds42(peer_reply, "current_index") => g_image_index' = 42
            /\ Holds42(peer_reply, "total") => g_image_total' = 42
       /\ ParsedInfo =>
            /\ TokenNowhere(peer_reply, "index") => index' = index
            /\ TokenNowhere(peer_reply, "total") =>
                    total' = total /\ g_image_total' = g_image_total
            /\ Holds42(peer_reply, "total") => total' = 42 /\ g_image_total' = 42]_vars

\* the update step has read total = 42 from a reply that begins with
\* unrelated bytes and names total before current_index
C13_Witness ==
    /\ pc = "sc_create" /\ cmd = "info"
    /\ peer_reply.pre = PreUnrelated
    /\ Len(peer_reply.fields) = 2
    /\ peer_reply.fields[1] = Field("total", SepSpaced, V42)
    /\ peer_reply.fields[2].name = "current_index"
    /\ g_image_total = 42

\* C14: the file name lookup returns the quoted value that follows the
\* token: from {"index" : 3, "total" : 10, "filename" : "sunset.bin"} it
\* takes sunset.bin.
C14_FilenameIsValue ==
    (pc = "malloc" /\ peer_reply = ExampleInfoReply) => filename = SunsetBin

\* C15: the update step leaves a counter at its previous value when its
\* field is missing from the reply or is followed by a malformed value, the
\* empty reply included.
C15_AbsentFieldKeepsCounter ==
    [][ParsedUpdate =>
        /\ AbsentOrMalformed(peer_reply, "current_index") =>
                g_image_index' = g_image_index
        /\ AbsentOrMalformed(peer_reply, "total") =>
                g_image_total' = g_image_total]_vars

\* the update step has met "total" : x and g_image_total still holds the 7
\* of an earlier cycle
C15_Witness ==
    /\ pc = "sc_create" /\ cmd = "info"
    /\ peer_reply.fields = <<Field("total", SepSpaced, <<"x">>)>>
    /\ g_image_total = 7

\* C16: the extraction stays inside filename[256], and a name longer than
\* the 255 characters it can hold is stored cut to 255 characters.
C16_LongNameTruncated ==
    (/\ pc = "malloc"
     /\ \E i \in DOMAIN peer_reply.fields :
            peer_reply.fields[i] = FilenameField(LongName)) =>
        /\ Len(filename) <= FILENAME_SIZE - 1
        /\ filename = SubSeq(LongName, 1, FILENAME_SIZE - 1)
\* --------------------------------------------------------------------- C17
Commands == {"update", "info", "get_c"}

\* C17: in a cycle update, info and get_c are each attempted at most once
\* and in this order, info only after update has returned 0 and get_c only
\* after info has returned 0.  An attempt in which a transport step has
\* failed or whose socket is closed makes no further socket call; a failed
\* attempt is followed by the delay, and update is sent again only from the
\* top of the loop, after the delay of the cycle before.
C17_CommandOrder ==
    /\ [](\A c \in Commands : Count(c, log) <= 1)
    /\ []((InLoop /\ log # <<>>) => log[1] = "update")
    /\ [](Has("info", log) => SubSeq(log, 1, 2) = <<"update", "info">>)
    /\ [](Has("get_c", log) => SubSeq(log, 1, 3) = <<"update", "info", "get_c">>)
    /\ [](Has("update_failed", log) => ~Has("info", log))
    /\ [](Has("info_failed", log) => ~Has("get_c", log))
    /\ [](pc \in ScPcs \cup GiPcs =>
            /\ closes = 0 /\ ~fault
            /\ log[Len(log)] = cmd)
    /\ [][(Has("info", log') /\ ~Has("info", log)) =>
            pc = "parse_update" /\ cmd = "update" /\ ret = 0]_vars
    /\ [][(Has("get_c", log') /\ ~Has("get_c", log)) =>
            pc = "malloc" /\ cmd = "info" /\ ret = 0]_vars
    /\ [][(pc \in {"sc_ret", "gi_ret"} /\ ret # 0 /\ pc' # pc) => pc' = "delay"]_vars
    /\ [][(log' # log /\ log' = <<"update">>) =>
            /\ pc = "loop_top"
            /\ loop_count = 0 \/ log[Len(log)] = "delay"]_vars

\* the send or the receive of info has failed: the socket is closed and the
\* cycle has gone to its delay without get_c
C17_Witness ==
    /\ pc = "delay"
    /\ log = <<"update", "info", "info_failed">>
    /\ cmd = "info" /\ fault /\ closes = 1 /\ fd = 1
\* --------------------------------------------------------------------- C18
\* positions at which the image buffer is written or read: the fetch, the
\* hex dump at its return, the display steps, and the free itself
BufferInUsePcs == GiPcs \cup {"gi_ret", "dev_init", "epd_init", "display", "sleep", "free"}

\* C18: the image buffer has a single owner.  At most one buffer is
\* allocated at any time and image_buffer points to it; where the buffer is
\* used it is allocated and not yet freed; a cycle that allocated a buffer
\* has freed it exactly once when it reaches its delay (after a failed
\* fetch, a failed display initialisation or the render), a cycle that did
\* not has freed nothing; once freed the buffer is not used again.
C18_BufferSingleOwner ==
    /\ allocated \in {0, 1}
    /\ allocated = 1 <=> image_buffer # NULL
    /\ pc \in BufferInUsePcs =>
            /\ allocated = 1
            /\ ~Has("free", log)
            /\ DOMAIN image_buffer = 0 .. IMAGE_BUFFER_SIZE - 1
    /\ Count("free", log) <= 1
    /\ Has("free", log) => allocated = 0 /\ pc \in {"delay", "loop_top"}
    /\ pc \in {"delay", "loop_top"} =>
            /\ allocated = 0
            /\ Count("free", log) = (IF Has("get_c", log) THEN 1 ELSE 0)

\* in the second cycle a new buffer was allocated, the fetch succeeded, the
\* display initialisation failed and the buffer has been freed
C18_Witness ==
    /\ loop_count = 2
    /\ pc = "delay"
    /\ Has("dev_init_failed", log)
    /\ Count("free", log) = 1
    /\ image_buffer = NULL
\* --------------------------------------------------------------------- C19
\* what the main thread owns: its position, its locals, the sockets, the
\* buffers and the counters
mainThreadVars ==
    <<pc, timeout, loop_count, cmd, fd, ret, recv_ret, fetchVars, bufVars,
      sock_open, closes, fault, peerVars, log, scanVars>>

\* C19: g_wifi_connected is written by wifi_event_callback only.  A step
\* that changes it is a step of the registered callback and moves nothing
\* of the main thread: no step of the link wait, of the loop or of the two
\* socket operations writes it, however the callback is interleaved.
C19_LinkFlagWrittenByCallbackOnly ==
    [][g_wifi_connected' # g_wifi_connected =>
        cb_registered /\ UNCHANGED mainThreadVars]_vars

\* the callback has cleared the flag while the fetch was receiving the body
C19_Witness ==
    /\ pc = "gi_body"
    /\ received > 0
    /\ ~g_wifi_connected
\* --------------------------------------------------------------------- C20
\* the four header bytes have been read, and the length decoded from them
HeaderRead ==
    /\ pc \in {"gi_body", "gi_ret"}
    /\ body_recvs > 0 \/ recv_ret = HEADER_LEN

\* b0 * 2^24 + b1 * 2^16 + b2 * 2^8 + b3 as an unsigned 32-bit number: its
\* upper half is b0 * 2^8 + b1 and its lower half b2 * 2^8 + b3
BigEndian(h) == U32(h[1] * 256 + h[2], h[3] * 256 + h[4])

\* C20: the four header bytes the server sent are decoded as the unsigned
\* big-endian number b0 * 2^24 + b1 * 2^16 + b2 * 2^8 + b3, whatever the
\* bytes are, a first byte of 128 or more included; 00 01 00 00 gives 65536;
\* and the fetch is refused exactly when this number exceeds the capacity.
C20_HeaderBigEndian ==
    HeaderRead =>
        /\ header = peer_hdr
        /\ image_size = BigEndian(header)
        /\ header = <<0, 1, 0, 0>> => ToNat(image_size) = 65536
        /\ U32Gt(BigEndian(header), Capacity) <=>
                (pc = "gi_ret" /\ ret = -1 /\ body_recvs = 0)

\* the header 80 00 00 00 has been decoded as 2^31 and refused
C20_Witness ==
    /\ HeaderRead
    /\ header = <<128, 0, 0, 0>>
    /\ image_size = U32(32768, 0)
    /\ pc = "gi_ret" /\ ret = -1
\* --------------------------------------------------------------------- C21
\* the receive loop is running or has just ended
InBody == pc = "gi_body" \/ (pc = "gi_ret" /\ body_recvs > 0)

\* C21: throughout the receive loop received <= declared_len <= capacity;
\* each read asks for min(4096, declared_len - received) bytes at offset
\* received, so what a read stores is the cells received .. received + n - 1
\* and no write lands outside [0, declared_len), even when the server has
\* more to send than it declared; every successful read adds at least one
\* byte, so the loop makes at most declared_len reads, and it ends.
C21_ReceiveLoop ==
    /\ [](InBody =>
            /\ image_size = BigEndian(peer_hdr)
            /\ ~U32Gt(image_size, Capacity)
            /\ received <= ToNat(image_size)
            /\ written = 0 .. received - 1
            /\ \A i \in written : 0 <= i /\ i < ToNat(image_size)
            /\ body_recvs <= ToNat(image_size))
    /\ [][(pc = "gi_body" /\ body_recvs' # body_recvs) =>
            /\ body_recvs' = body_recvs + 1
            /\ recv_ret' <= Min(RECV_CHUNK, ToNat(image_size) - received)
            /\ IF recv_ret' > 0
               THEN /\ received' = received + recv_ret'
                    /\ written' = written \cup (received .. received' - 1)
                    /\ \A i \in received .. received' - 1 :
                            image_buffer'[i] = StreamByte(peer_pos + (i - received) + 1)
               ELSE pc' = "gi_ret" /\ ret' = -1 /\ UNCHANGED <<received, written>>]_vars
    /\ (pc = "gi_body") ~> (pc = "gi_ret")

\* a frame of the full capacity has been received one byte per read, from a
\* server that had one more byte to send
C21_Witness ==
    /\ pc = "gi_ret" /\ ret = 0
    /\ ToNat(image_size) = IMAGE_BUFFER_SIZE
    /\ body_recvs = IMAGE_BUFFER_SIZE
    /\ received = IMAGE_BUFFER_SIZE
    /\ peer_len > peer_pos
\* --------------------------------------------------------------------- C22
\* C22: when socket_send_command returns 0 the response buffer holds the
\* recv_ret <= resp_size - 1 bytes received, from the start of the reply,
\* and its terminator sits at index recv_ret, inside the buffer; so it is
\* when the server sends exactly resp_size - 1 bytes, more, or nothing.  The
\* scans that follow read a string that ends inside the buffer.
C22_ResponseTerminated ==
    /\ (pc = "sc_ret" /\ ret = 0) =>
            /\ 0 <= recv_ret /\ recv_ret <= RECV_BUFFER_SIZE - 1
            /\ Len(response) = recv_ret
            /\ response = SubSeq(ReplyText(peer_reply), 1, recv_ret)
    /\ pc \in {"parse_update", "parse_info"} => Len(response) < RECV_BUFFER_SIZE

\* the server sent exactly resp_size - 1 bytes and all of them were read
C22_Witness ==
    /\ pc = "sc_ret" /\ ret = 0
    /\ peer_len = RECV_BUFFER_SIZE - 1
    /\ recv_ret = RECV_BUFFER_SIZE - 1
    /\ Len(response) = RECV_BUFFER_SIZE - 1

\* --------------------------------------------------------------------- C23
\* the integer a value text stands for
IntOf(val) ==
    CASE val = V42 -> 42
      [] val = V10 -> 10
      [] val = VNeg5 -> -5
      [] val = V3 -> 3

\* C23: the info step never turns a total field without a decodable value
\* into zero: after it g_image_total is its value from before the step or
\* the integer that follows the "total" token in the reply.
C23_TotalNeverDefaulted ==
    [][ParsedInfo =>
        \/ g_image_total' = g_image_total
        \/ \E i \in DOMAIN peer_reply.fields :
              /\ peer_reply.fields[i].name = "total"
              /\ peer_reply.fields[i].val \notin BadVals
              /\ g_image_total' = IntOf(peer_reply.fields[i].val)]_vars
====
